---- MODULE Spec2Model ----
(***************************************************************************)
(* A model of the quant-backtest engine (src/core/engine.py), its signal   *)
(* ensemble, and the two crossover strategies (src/strategies) with the    *)
(* indicators they use (src/utils/indicators.py).                          *)
(*                                                                         *)
(* Prices, cash, share quantities and metrics are Python floats.  They are *)
(* modelled as binary floating-point numbers m * 2^e with a significand of *)
(* Precision bits and round-to-nearest-even after every operation, as in   *)
(* IEEE-754; the exponent is unbounded.  CPython's float has 53 bits: the  *)
(* width is a bound of the model, the rounding rule is not.                *)
(***************************************************************************)
EXTENDS Integers, Sequences, FiniteSets

\* ------------------------------------------------------------ bounds

\* Significand width of the modelled floats.
Precision == 13
\* Longest price series an engine with any strategies is run on.
MaxBars == 3
\* Longest price series an engine with one crossover strategy is run on.
MaxSeries == 4
\* Largest window of a moving-average strategy and largest span of a MACD
\* strategy in those runs.
MaxWindow == 3
MaxSpan == 2
\* Longest price series an engine with one strategy of its user is run on.
MaxPairBars == 4

\* ------------------------------------------------------------ floats

MantMin == 2 ^ (Precision - 1)
MantMax == 2 ^ Precision

Abs(n) == IF n < 0 THEN -n ELSE n
Sgn(n) == IF n < 0 THEN -1 ELSE IF n > 0 THEN 1 ELSE 0

NaN == [k |-> "nan", m |-> 0, e |-> 0]
Inf(s) == [k |-> "inf", m |-> s, e |-> 0]
Num(m, e) == [k |-> "num", m |-> m, e |-> e]
Zero == Num(0, 0)

IsNaN(x) == x.k = "nan"
IsNum(x) == x.k = "num"
IsInf(x) == x.k = "inf"

\* Op(x) and Op(x, y) with the arguments evaluated once, before Op is
Apply1(Op(_), x) == CHOOSE r \in {Op(a) : a \in {x}} : TRUE
Apply2(Op(_, _), x, y) == CHOOSE r \in {Op(a, b) : a \in {x}, b \in {y}} : TRUE

\* a/d * 2^e with a/d brought into [MantMin, MantMax): <<a, d, e>>
RECURSIVE ScaleUp(_, _, _)
ScaleUp(a, d, e) ==
    IF a >= MantMin * d THEN <<a, d, e>> ELSE ScaleUp(2 * a, d, e - 1)

RECURSIVE Scale(_, _, _)
Scale(a, d, e) ==
    IF a < MantMax * d THEN ScaleUp(a, d, e) ELSE Scale(a, 2 * d, e + 1)

\* u[1]/u[2] in [MantMin, MantMax) to the nearest integer, ties to even
Nearest(s, u) ==
    LET q  == u[1] \div u[2]
        r  == u[1] % u[2]
        up == (2 * r > u[2]) \/ (2 * r = u[2] /\ q % 2 = 1)
    IN  IF q + 1 = MantMax /\ up THEN Num(s * MantMin, u[3] + 1)
        ELSE Num(s * (IF up THEN q + 1 ELSE q), u[3])

\* The float nearest to s * (a/d) * 2^e (s = +1 or -1, a >= 0, d > 0)
Round(s, a, d, e) ==
    IF a = 0 THEN Zero ELSE Apply2(Nearest, s, Scale(a, d, e))

FromInt(n) == Round(Sgn(n), Abs(n), 1, 0)

FNeg(x) == IF IsNaN(x) THEN NaN ELSE [x EXCEPT !.m = -x.m]

\* x + y for two finite floats, the first with the larger exponent
AddAligned(x, y) ==
    LET d == x.e - y.e
    IN  IF d > Precision + 1 THEN x
        ELSE LET n == x.m * (2 ^ d) + y.m
             IN  Round(Sgn(n), Abs(n), 1, y.e)

Add(x, y) ==
    IF IsNaN(x) \/ IsNaN(y) THEN NaN
    ELSE IF IsInf(x) /\ IsInf(y) THEN (IF x.m = y.m THEN x ELSE NaN)
    ELSE IF IsInf(x) THEN x
    ELSE IF IsInf(y) THEN y
    ELSE IF x.m = 0 THEN y
    ELSE IF y.m = 0 THEN x
    ELSE IF x.e >= y.e THEN AddAligned(x, y) ELSE AddAligned(y, x)

FAdd(x, y) == Apply2(Add, x, y)
FSub(x, y) == FAdd(x, FNeg(y))

Mul(x, y) ==
    IF IsNaN(x) \/ IsNaN(y) THEN NaN
    ELSE IF IsInf(x) \/ IsInf(y)
         THEN (IF x.m = 0 \/ y.m = 0 THEN NaN ELSE Inf(Sgn(x.m) * Sgn(y.m)))
    ELSE Round(Sgn(x.m) * Sgn(y.m), Abs(x.m) * Abs(y.m), 1, x.e + y.e)

FMul(x, y) == Apply2(Mul, x, y)

\* numpy float64 division: x/0 is inf (nan for 0/0), never an exception
Div(x, y) ==
    IF IsNaN(x) \/ IsNaN(y) THEN NaN
    ELSE IF IsInf(x) THEN (IF IsInf(y) THEN NaN
                           ELSE Inf(x.m * (IF y.m < 0 THEN -1 ELSE 1)))
    ELSE IF IsInf(y) THEN Zero
    ELSE IF y.m = 0 THEN (IF x.m = 0 THEN NaN ELSE Inf(Sgn(x.m)))
    ELSE Round(Sgn(x.m) * Sgn(y.m), Abs(x.m), Abs(y.m), x.e - y.e)

FDiv(x, y) == Apply2(Div, x, y)

\* The sign of x - y for two non-NaN floats
Compare(x, y) ==
    IF IsInf(x) \/ IsInf(y)
    THEN Sgn((IF IsInf(x) THEN 2 * x.m ELSE Sgn(x.m))
             - (IF IsInf(y) THEN 2 * y.m ELSE Sgn(y.m)))
    ELSE Sgn(FSub(x, y).m)

\* Comparisons: every comparison with NaN but != is false
Ordered(x, y) == ~IsNaN(x) /\ ~IsNaN(y)
Lt(x, y) == Ordered(x, y) /\ Compare(x, y) < 0
Le(x, y) == Ordered(x, y) /\ Compare(x, y) <= 0
Eq(x, y) == Ordered(x, y) /\ Compare(x, y) = 0
FLt(x, y) == Apply2(Lt, x, y)
FGt(x, y) == FLt(y, x)
FLe(x, y) == Apply2(Le, x, y)
FGe(x, y) == FLe(y, x)
FEq(x, y) == Apply2(Eq, x, y)
FNe(x, y) == ~FEq(x, y)

\* The largest s with s * s <= n, for lo * lo <= n < hi * hi
RECURSIVE ISqrt(_, _, _)
ISqrt(n, lo, hi) ==
    IF hi - lo <= 1 THEN lo
    ELSE LET mid == (lo + hi) \div 2
         IN  IF mid * mid <= n THEN ISqrt(n, mid, hi) ELSE ISqrt(n, lo, mid)

\* the root of n * 2^(2h), from the integer root s of n
RootOf(n, s, h) == Round(1, 2 * s + (IF s * s = n THEN 0 ELSE 1), 2, h)

\* the root of the integer n = m * 2^k, 2^(2 Precision) <= n < 2^(2 Precision + 2)
Root(n, h) == RootOf(n, Apply1(LAMBDA v : ISqrt(v, MantMin, 2 * MantMax + 1), n), h)

\* sqrt(x), correctly rounded; NaN for a negative x
Sqrt(x) ==
    IF IsNaN(x) THEN NaN
    ELSE IF x.m < 0 THEN NaN
    ELSE IF IsInf(x) \/ x.m = 0 THEN x
    ELSE IF (x.e - Precision - 1) % 2 = 0
         THEN Apply2(Root, x.m * (2 ^ (Precision + 1)), (x.e - Precision - 1) \div 2)
         ELSE Apply2(Root, x.m * (2 ^ (Precision + 2)), (x.e - Precision - 2) \div 2)

FSqrt(x) == Apply1(Sqrt, x)

Half == FDiv(FromInt(1), FromInt(2))
One == FromInt(1)

\* ------------------------------------------------------------ series

Signals == {-1, 0, 1}

RECURSIVE SeqsOf(_, _)
\* every sequence of length n over S
SeqsOf(S, n) ==
    IF n = 0 THEN {<<>>}
    ELSE {Append(q, x) : q \in SeqsOf(S, n - 1), x \in S}

\* The closes a price series is drawn from, and the series run is called with
\* (the index of a bar stands for its date).
Prices == {FromInt(50), FromInt(55)}
PriceSeries == UNION {SeqsOf(Prices, n) : n \in 0..MaxBars}
PairSeries == UNION {SeqsOf(Prices, n) : n \in 0..MaxPairBars}
CrossPrices == Prices \cup {FromInt(60)}
CrossSeries == UNION {SeqsOf(CrossPrices, n) : n \in 0..MaxSeries}
ShortCrossSeries == UNION {SeqsOf(CrossPrices, n) : n \in 0..MaxBars}

\* ------------------------------------------------------------ indicators

\* sum of x[lo..hi], added left to right
RECURSIVE FSum(_, _, _)
FSum(x, lo, hi) ==
    IF hi < lo THEN Zero ELSE FAdd(FSum(x, lo, hi - 1), x[hi])

\* data.rolling(window).mean(): NaN until the window is full
SMA(x, window) ==
    Apply1(LAMBDA v : [t \in 1..Len(v) |->
                          IF t < window THEN NaN
                          ELSE FDiv(FSum(v, t - window + 1, t), FromInt(window))],
           x)

\* the smoothing factor of ewm(span=window): com = (span - 1)/2, alpha = 1/(1 + com)
Alpha(window) ==
    FDiv(One, FAdd(One, FDiv(FSub(FromInt(window), One), FromInt(2))))

\* one step of ewm(adjust=False).mean(), which leaves a value equal to the
\* new observation as it is
EwmStep(prev, cur, alpha) ==
    LET old_wt == FMul(One, FSub(One, alpha))
    IN  IF FNe(prev, cur)
        THEN FDiv(FAdd(FMul(old_wt, prev), FMul(alpha, cur)), FAdd(old_wt, alpha))
        ELSE prev

\* the first n values of the smoothed series
RECURSIVE EwmUpTo(_, _, _)
EwmUpTo(x, alpha, n) ==
    IF n = 0 THEN <<>>
    ELSE IF n = 1 THEN <<x[1]>>
    ELSE Apply1(LAMBDA prev : Append(prev, EwmStep(prev[n - 1], x[n], alpha)),
                EwmUpTo(x, alpha, n - 1))

\* data.ewm(span=window, adjust=False).mean(): defined from the first bar
EMA(x, window) ==
    Apply2(LAMBDA v, alpha : EwmUpTo(v, alpha, Len(v)), x, Alpha(window))

\* macd_line = ema_fast - ema_slow
MacdLine(close, fast, slow) ==
    Apply2(LAMBDA ema_fast, ema_slow :
               [t \in 1..Len(close) |-> FSub(ema_fast[t], ema_slow[t])],
           EMA(close, fast), EMA(close, slow))

\* the macd and signal lines
MACD(close, fast, slow, signal) ==
    [macd |-> MacdLine(close, fast, slow),
     signal |-> EMA(MacdLine(close, fast, slow), signal)]

\* a shift the other way: the next bar's value, NaN on the last bar
ShiftAhead(x) == [t \in 1..Len(x) |-> IF t = Len(x) THEN NaN ELSE x[t + 1]]

\* series.shift(1): the previous bar's value, NaN on the first bar
Shift(x) == [t \in 1..Len(x) |-> IF t = 1 THEN NaN ELSE x[t - 1]]

\* ------------------------------------------------------------ strategies

\* a golden cross that needs the short line strictly below on the bar before
GoldenCrossStrict(a, b, t) ==
    FGt(a[t], b[t]) /\ FLt(Shift(a)[t], Shift(b)[t])

\* a golden cross that takes touching lines for a cross
GoldenCrossTouching(a, b, t) ==
    FGe(a[t], b[t]) /\ FLe(Shift(a)[t], Shift(b)[t])

\* (a > b) & (a.shift(1) <= b.shift(1)), false wherever a value is NaN
GoldenCross(a, b, t) ==
    FGt(a[t], b[t]) /\ FLe(Shift(a)[t], Shift(b)[t])

\* (a < b) & (a.shift(1) >= b.shift(1))
DeathCross(a, b, t) ==
    FLt(a[t], b[t]) /\ FGe(Shift(a)[t], Shift(b)[t])

\* signals = 0; signals[golden cross] = 1; then signals[death cross] = -1
CrossSignals(a, b) ==
    Apply2(LAMBDA u, v : [t \in 1..Len(u) |->
                             IF DeathCross(u, v, t) THEN -1
                             ELSE IF GoldenCross(u, v, t) THEN 1
                             ELSE 0],
           a, b)

MACrossStrategy(short_window, long_window) ==
    [kind |-> "MA", p1 |-> short_window, p2 |-> long_window, p3 |-> 0]
MACDStrategy(fast, slow, signal) ==
    [kind |-> "MACD", p1 |-> fast, p2 |-> slow, p3 |-> signal]
\* any other subclass of BaseStrategy, named after its class
CustomStrategy(id) == [kind |-> "Custom", p1 |-> id, p2 |-> 0, p3 |-> 0]

\* BaseStrategy.name, as the subclasses set it
Name(s) ==
    IF s.kind = "MA" THEN <<"MA", s.p1, s.p2>>
    ELSE IF s.kind = "MACD" THEN <<"MACD", s.p1, s.p2, s.p3>>
    ELSE <<"Custom", s.p1>>

Closes(data) == data

MAGenerateSignals(s, data) ==
    CrossSignals(SMA(Closes(data), s.p1), SMA(Closes(data), s.p2))

MACDGenerateSignals(s, data) ==
    CrossSignals(MACD(Closes(data), s.p1, s.p2, s.p3).macd,
                 MACD(Closes(data), s.p1, s.p2, s.p3).signal)

\* What generate_signals may return: the crossover strategies are functions
\* of the data, another subclass may return any series of 1 / 0 / -1.
GenerateSignals(s, data) ==
    IF s.kind = "MA" THEN {MAGenerateSignals(s, data)}
    ELSE IF s.kind = "MACD" THEN {MACDGenerateSignals(s, data)}
    ELSE SeqsOf(Signals, Len(data))

\* ------------------------------------------------------------ engine

VARIABLES
    initial_capital,   \* self.initial_capital
    commission,        \* self.commission
    strategies,        \* self.strategies
    results,           \* self.results: None, or the bundle of the last run
    raised,            \* the exception the last call of run raised, or "none"
    pc,                \* "idle", or where the running call of run is
    data,              \* run's price series
    votes,             \* the signal each strategy.generate_signals returned
    signals,           \* run's combined_signal
    i,                 \* _execute_backtest's loop index
    cash,
    position,
    trades,
    portfolio_value

engine == <<initial_capital, commission, strategies, results, raised>>
frame == <<data, votes, signals, i, cash, position, trades, portfolio_value>>
vars == <<engine, pc, frame>>

None == [kind |-> "None"]

\* BacktestEngine(initial_capital=100000, commission=0.0003), and engines
\* constructed without capital or without commission
DefaultCapital == 100000
DefaultCommission == FDiv(FromInt(3), FromInt(10000))
Capitals == {FromInt(DefaultCapital), Zero}
Commissions == {DefaultCommission, Zero}

\* the strategies add_strategy is called with, and the lists they make
Strategies ==
    {MACrossStrategy(1, 2), MACrossStrategy(2, 1), MACDStrategy(1, 2, 2),
     MACDStrategy(2, 1, 1), CustomStrategy("A")}
StrategyLists == UNION {SeqsOf(Strategies, n) : n \in {0, 1, 2}}

\* the crossover strategies of the single-strategy engines
CrossStrategies ==
    {MACrossStrategy(a, b) : a \in 1..MaxWindow, b \in 1..MaxWindow}
    \cup {MACDStrategy(a, b, c) : a \in 1..MaxSpan, b \in 1..MaxSpan, c \in 1..MaxSpan}

\* the values a call of run leaves no trace of
NoFrame ==
    /\ data = <<>>
    /\ votes = <<>>
    /\ signals = <<>>
    /\ i = 0
    /\ cash = Zero
    /\ position = Zero
    /\ trades = <<>>
    /\ portfolio_value = <<>>

\* run returns (or raises): its locals are gone
ResetFrame ==
    /\ data' = <<>>
    /\ votes' = <<>>
    /\ signals' = <<>>
    /\ i' = 0
    /\ cash' = Zero
    /\ position' = Zero
    /\ trades' = <<>>
    /\ portfolio_value' = <<>>

Init ==
    /\ initial_capital \in Capitals
    /\ commission \in Commissions
    /\ strategies = <<>>
    /\ results = None
    /\ raised = "none"
    /\ pc = "idle"
    /\ NoFrame

\* The engine is followed up to its first completed run.
FirstRun == results = None

AddStrategy(s) ==
    /\ pc = "idle"
    /\ FirstRun
    /\ Append(strategies, s) \in StrategyLists
    /\ strategies' = Append(strategies, s)
    /\ UNCHANGED <<initial_capital, commission, results, raised, pc, frame>>

\* a run that never checks its strategies
NoStrategiesUnchecked(strats) == FALSE

\* if not self.strategies
NoStrategies(strats) == Len(strats) = 0

\* The signals frame after the loop over the strategies: one column per
\* strategy name, a later strategy of the same name replacing the column.
\* out[n] is what the n-th strategy's generate_signals returned.
RECURSIVE SignalFrame(_, _, _)
SignalFrame(strats, out, n) ==
    IF n = 0 THEN <<>>
    ELSE Apply2(LAMBDA before, name :
                    [c \in DOMAIN before \cup {name} |->
                        IF c = name THEN out[n] ELSE before[c]],
                SignalFrame(strats, out, n - 1), Name(strats[n]))

RECURSIVE IntSum(_, _)
IntSum(f, S) ==
    IF S = {} THEN 0
    ELSE LET c == CHOOSE c \in S : TRUE
         IN  f[c] + IntSum(f, S \ {c})

\* signals.mean(axis=1) on bar t: NaN for a frame with no column
RowMean(df, t) ==
    LET row == [c \in DOMAIN df |-> df[c][t]]
    IN  IF DOMAIN df = {} THEN NaN
        ELSE FDiv(FromInt(IntSum(row, DOMAIN df)), FromInt(Cardinality(DOMAIN df)))

\* lambda x: 1 if x > 0.5 else (-1 if x < -0.5 else 0)
Threshold(x) ==
    Apply1(LAMBDA v : IF FGt(v, Half) THEN 1
                      ELSE IF FLt(v, FNeg(Half)) THEN -1 ELSE 0,
           x)

CombinedSignal(strats, out, n) ==
    Apply1(LAMBDA df : [t \in 1..n |-> Threshold(RowMean(df, t))],
           SignalFrame(strats, out, Len(strats)))

\* every way the strategies' generate_signals can answer, in order
RECURSIVE Outputs(_, _, _)
Outputs(strats, d, n) ==
    IF n = 0 THEN {<<>>}
    ELSE {Append(q, o) : q \in Outputs(strats, d, n - 1),
                         o \in GenerateSignals(strats[n], d)}

\* run with no strategy registered: raise ValueError, nothing else happens
RunRejected ==
    /\ pc = "idle"
    /\ FirstRun
    /\ NoStrategies(strategies)
    /\ raised' = "ValueError"
    /\ UNCHANGED <<initial_capital, commission, strategies, results, pc, frame>>

\* a pass that starts from the cash the run before ended with
StartCashCarried ==
    IF results = None THEN initial_capital
    ELSE results.portfolio[Len(results.portfolio)].cash

\* cash = self.initial_capital
StartCash == initial_capital

\* run(d) up to the loop of _execute_backtest: the strategies' signals, the
\* combined signal, and the loop's initial cash and position
Run(d) ==
    /\ pc = "idle"
    /\ ~NoStrategies(strategies)
    /\ raised' = "none"
    /\ data' = d
    /\ votes' \in Outputs(strategies, d, Len(strategies))
    /\ signals' = CombinedSignal(strategies, votes', Len(d))
    /\ cash' = StartCash
    /\ position' = Zero
    /\ portfolio_value' = <<>>
    /\ trades' = <<>>
    /\ i' = 0
    /\ pc' = "loop"
    /\ UNCHANGED <<initial_capital, commission, strategies, results>>

\* the first call of run on the engine
RunStart(d) == FirstRun /\ Run(d)

\* a later call of run on the engine
RunAgain(d) == ~FirstRun /\ Run(d)

\* if signal == 1 and position == 0 and cash > 0
BuyAllowed(signal, pos, csh) == signal = 1 /\ FEq(pos, Zero) /\ FGt(csh, Zero)

\* a SELL taken on the signal alone
SellAllowedAnyPosition(signal, pos) == signal = -1

\* elif signal == -1 and position > 0
SellAllowed(signal, pos) == signal = -1 /\ FGt(pos, Zero)

\* a BUY that takes the cost for the position
BuyBranchPositionIsCost(date, close, csh, rate) ==
    LET max_shares == FDiv(csh, FMul(close, FAdd(One, rate)))
        commission_fee == FMul(FMul(max_shares, close), rate)
        cost == FMul(max_shares, close)
    IN  [position |-> cost,
         cash |-> FSub(csh, FAdd(cost, commission_fee)),
         trade |-> [date |-> date, type |-> "BUY", price |-> close,
                    shares |-> max_shares, cost |-> cost,
                    commission |-> commission_fee,
                    cash |-> FSub(csh, FAdd(cost, commission_fee))]]

\* the BUY branch: the cash and position it leaves and the trade it appends
BuyBranch(date, close, csh, rate) ==
    LET max_shares == FDiv(csh, FMul(close, FAdd(One, rate)))
        commission_fee == FMul(FMul(max_shares, close), rate)
        cost == FMul(max_shares, close)
    IN  [position |-> max_shares,
         cash |-> FSub(csh, FAdd(cost, commission_fee)),
         trade |-> [date |-> date, type |-> "BUY", price |-> close,
                    shares |-> max_shares, cost |-> cost,
                    commission |-> commission_fee,
                    cash |-> FSub(csh, FAdd(cost, commission_fee))]]

\* a SELL that leaves the position as it was
SellBranchKeepsPosition(date, close, csh, pos, rate) ==
    LET sell_amount == FMul(pos, close)
        commission_fee == FMul(sell_amount, rate)
    IN  [position |-> pos,
         cash |-> FAdd(csh, FSub(sell_amount, commission_fee)),
         trade |-> [date |-> date, type |-> "SELL", price |-> close,
                    shares |-> pos, commission |-> commission_fee,
                    cash |-> FAdd(csh, FSub(sell_amount, commission_fee))]]

\* the SELL branch
SellBranch(date, close, csh, pos, rate) ==
    LET sell_amount == FMul(pos, close)
        commission_fee == FMul(sell_amount, rate)
    IN  [position |-> Zero,
         cash |-> FAdd(csh, FSub(sell_amount, commission_fee)),
         trade |-> [date |-> date, type |-> "SELL", price |-> close,
                    shares |-> pos, commission |-> commission_fee,
                    cash |-> FAdd(csh, FSub(sell_amount, commission_fee))]]

\* a snapshot whose total leaves the position out
SnapshotCashOnly(date, close, csh, pos) ==
    [date |-> date, cash |-> csh, position |-> pos,
     position_value |-> FMul(pos, close),
     total_value |-> csh]

\* the record appended to portfolio_value on every bar
Snapshot(date, close, csh, pos) ==
    [date |-> date, cash |-> csh, position |-> pos,
     position_value |-> FMul(pos, close),
     total_value |-> FAdd(csh, FMul(pos, close))]

\* one iteration of the loop over the bars
ExecuteBar ==
    /\ pc = "loop"
    /\ i < Len(data)
    /\ \E after \in
           {IF BuyAllowed(signals[i + 1], position, cash)
            THEN BuyBranch(i, data[i + 1], cash, commission)
            ELSE IF SellAllowed(signals[i + 1], position)
            THEN SellBranch(i, data[i + 1], cash, position, commission)
            ELSE [position |-> position, cash |-> cash, trade |-> None]} :
           /\ cash' = after.cash
           /\ position' = after.position
           /\ trades' = IF after.trade = None THEN trades
                        ELSE Append(trades, after.trade)
           /\ portfolio_value' =
                  Append(portfolio_value,
                         Snapshot(i, data[i + 1], after.cash, after.position))
    /\ i' = i + 1
    /\ UNCHANGED <<engine, pc, data, votes, signals>>

\* ------------------------------------------------------------ metrics

TradingDays == 252
\* the risk-free rate 0.03
RiskFree == FDiv(FromInt(3), FromInt(100))

TotalValues(portfolio) == [t \in 1..Len(portfolio) |-> portfolio[t].total_value]

NotNaN(x) == ~IsNaN(x)

\* portfolio['total_value'].pct_change().dropna()
Returns(tv) ==
    SelectSeq([t \in 1..Len(tv) |-> FSub(FDiv(tv[t], Shift(tv)[t]), One)], NotNaN)

\* Series.mean(): sum / count
Mean(x) == FDiv(FSum(x, 1, Len(x)), FromInt(Len(x)))

\* Series.std(): the sample standard deviation (ddof = 1), NaN when the
\* series has no more than one value
Std(x) ==
    IF Len(x) <= 1 THEN NaN
    ELSE Apply1(LAMBDA avg :
                    FSqrt(FDiv(FSum([t \in 1..Len(x) |->
                                        FMul(FSub(avg, x[t]), FSub(avg, x[t]))],
                                    1, Len(x)),
                               FromInt(Len(x) - 1))),
                Mean(x))

\* if len(returns) > 0 and returns.std() != 0
SharpeDefined(returns) == Len(returns) > 0 /\ FNe(Std(returns), Zero)

Sharpe(returns) ==
    IF SharpeDefined(returns)
    THEN FDiv(FSub(FMul(Mean(returns), FromInt(TradingDays)), RiskFree),
              FMul(Std(returns), FSqrt(FromInt(TradingDays))))
    ELSE Zero

SharpeRatio(returns) == Apply1(Sharpe, returns)

\* (portfolio['total_value'].iloc[-1] / self.initial_capital - 1) * 100
TotalReturn(tv, capital) ==
    FMul(FSub(FDiv(tv[Len(tv)], capital), One), FromInt(100))

\* ((1 + total_return/100) ** (252/days) - 1) * 100 if days > 0 else 0; the
\* power is kept as its two operands
AnnualReturn(total_return, days) ==
    IF days > 0
    THEN [k |-> "annual",
          base |-> FAdd(One, FDiv(total_return, FromInt(100))),
          exponent |-> FDiv(FromInt(TradingDays), FromInt(days))]
    ELSE Zero

\* the larger of two values, a NaN giving way to the other
FMax(x, y) == IF IsNaN(x) THEN y ELSE IF IsNaN(y) THEN x
              ELSE IF FGt(y, x) THEN y ELSE x
FMin(x, y) == IF IsNaN(x) THEN y ELSE IF IsNaN(y) THEN x
              ELSE IF FLt(y, x) THEN y ELSE x

\* cumulative.cummax() at bar t
RECURSIVE RunningMax(_, _)
RunningMax(tv, t) ==
    IF t = 1 THEN tv[1] ELSE FMax(RunningMax(tv, t - 1), tv[t])

\* (cumulative - running_max) / running_max
Drawdown(tv) ==
    [t \in 1..Len(tv) |->
        Apply1(LAMBDA peak : FDiv(FSub(tv[t], peak), peak), RunningMax(tv, t))]

\* Series.min(): the least value that is not NaN, NaN if there is none
RECURSIVE SeriesMin(_, _)
SeriesMin(x, n) ==
    IF n = 0 THEN NaN ELSE FMin(SeriesMin(x, n - 1), x[n])

\* drawdown.min() * 100
MaxDrawdown(tv) ==
    Apply1(LAMBDA dd : FMul(SeriesMin(dd, Len(dd)), FromInt(100)), Drawdown(tv))

IsBuy(t) == t.type = "BUY"
IsSell(t) == t.type = "SELL"

\* min(len(buy_trades), len(sell_trades))
Pairs(buy_trades, sell_trades) ==
    IF Len(buy_trades) < Len(sell_trades) THEN Len(buy_trades)
    ELSE Len(sell_trades)

\* a profit that leaves the commissions out
PairProfitGross(buy, sell) ==
    FSub(FMul(sell.price, sell.shares), FMul(buy.price, buy.shares))

\* profit = sell_revenue - buy_cost - total_commission
PairProfit(buy, sell) ==
    FSub(FSub(FMul(sell.price, sell.shares), FMul(buy.price, buy.shares)),
         FAdd(buy.commission, sell.commission))

\* the profits of the i-th BUY paired with the i-th SELL
Profits(trds) ==
    Apply2(LAMBDA buy_trades, sell_trades :
               [n \in 1..Pairs(buy_trades, sell_trades) |->
                   PairProfit(buy_trades[n], sell_trades[n])],
           SelectSeq(trds, IsBuy), SelectSeq(trds, IsSell))

IsWin(p) == FGt(p, Zero)
IsLoss(p) == FLt(p, Zero)

\* (len(win_trades) / len(profits) * 100) if profits else 0
WinRate(profits) ==
    IF profits # <<>>
    THEN FMul(FDiv(FromInt(Len(SelectSeq(profits, IsWin))),
                   FromInt(Len(profits))),
              FromInt(100))
    ELSE Zero

\* np.mean(xs) if xs else 0
MeanOrZero(xs) == IF xs # <<>> THEN Mean(xs) ELSE Zero

FAbs(x) == IF IsNum(x) /\ x.m < 0 THEN FNeg(x) ELSE x

\* abs(avg_profit / avg_loss) if avg_loss != 0 else 0
ProfitLossRatio(avg_profit, avg_loss) ==
    IF FNe(avg_loss, Zero) THEN FAbs(FDiv(avg_profit, avg_loss)) ELSE Zero

\* the trade statistics of _calculate_metrics
TradeStats(trds) ==
    Apply1(LAMBDA profits :
               Apply2(LAMBDA avg_profit, avg_loss :
                          [win_rate |-> WinRate(profits),
                           profit_loss_ratio |->
                               ProfitLossRatio(avg_profit, avg_loss),
                           avg_profit |-> avg_profit,
                           avg_loss |-> avg_loss],
                      MeanOrZero(SelectSeq(profits, IsWin)),
                      MeanOrZero(SelectSeq(profits, IsLoss))),
           Profits(trds))

\* _calculate_metrics, on a portfolio of at least one bar
CalculateMetrics(portfolio, trds, capital) ==
    Apply2(LAMBDA tv, stats :
               [initial_capital |-> capital,
                final_value |-> tv[Len(tv)],
                total_return |-> TotalReturn(tv, capital),
                annual_return |->
                    AnnualReturn(TotalReturn(tv, capital), Len(portfolio)),
                max_drawdown |-> MaxDrawdown(tv),
                sharpe_ratio |-> SharpeRatio(Returns(tv)),
                total_trades |-> Len(trds),
                win_rate |-> stats.win_rate,
                profit_loss_ratio |-> stats.profit_loss_ratio,
                avg_profit |-> stats.avg_profit,
                avg_loss |-> stats.avg_loss],
           TotalValues(portfolio), TradeStats(trds))

\* The loop is over with at least one bar: the portfolio frame is built, the
\* metrics are computed and run stores and returns the bundle.
FinishRun ==
    /\ pc = "loop"
    /\ i = Len(data)
    /\ portfolio_value # <<>>
    /\ results' = [kind |-> "results", data |-> data, signals |-> signals,
                   trades |-> trades, portfolio |-> portfolio_value,
                   metrics |-> CalculateMetrics(portfolio_value, trades,
                                                initial_capital)]
    /\ pc' = "idle"
    /\ ResetFrame
    /\ UNCHANGED <<initial_capital, commission, strategies, raised>>

\* The loop is over without a bar: pd.DataFrame([]) has no 'date' column and
\* set_index('date') raises KeyError out of run.
FinishEmpty ==
    /\ pc = "loop"
    /\ i = Len(data)
    /\ portfolio_value = <<>>
    /\ raised' = "KeyError"
    /\ pc' = "idle"
    /\ ResetFrame
    /\ UNCHANGED <<initial_capital, commission, strategies, results>>

Next ==
    \/ \E s \in Strategies : AddStrategy(s)
    \/ RunRejected
    \/ \E d \in PriceSeries : RunStart(d)
    \/ ExecuteBar
    \/ FinishRun
    \/ FinishEmpty

Spec == Init /\ [][Next]_vars

\* An engine with the default capital and commission and one crossover
\* strategy registered, run on a longer series.
InitCross ==
    /\ initial_capital = FromInt(DefaultCapital)
    /\ commission = DefaultCommission
    /\ \E s \in CrossStrategies : strategies = <<s>>
    /\ results = None
    /\ raised = "none"
    /\ pc = "idle"
    /\ NoFrame

NextCross ==
    \/ \E d \in CrossSeries : RunStart(d)
    \/ ExecuteBar
    \/ FinishRun
    \/ FinishEmpty

SpecCross == InitCross /\ [][NextCross]_vars

\* An engine with the default capital and one strategy written by its user,
\* run on series long enough for two round trips.
InitPairs ==
    /\ initial_capital = FromInt(DefaultCapital)
    /\ commission \in Commissions
    /\ strategies = <<CustomStrategy("A")>>
    /\ results = None
    /\ raised = "none"
    /\ pc = "idle"
    /\ NoFrame

NextPairs ==
    \/ \E d \in PairSeries : RunStart(d)
    \/ ExecuteBar
    \/ FinishRun
    \/ FinishEmpty

SpecPairs == InitPairs /\ [][NextPairs]_vars

\* The same engines, run on the shorter series.
NextAhead ==
    \/ \E d \in ShortCrossSeries : RunStart(d)
    \/ ExecuteBar
    \/ FinishRun
    \/ FinishEmpty

SpecAhead == InitCross /\ [][NextAhead]_vars

\* An engine with the default capital and commission and one crossover
\* strategy, run again and again.
RerunStrategies ==
    {MACrossStrategy(1, 2), MACrossStrategy(2, 1), MACDStrategy(1, 2, 2)}

InitRerun ==
    /\ initial_capital = FromInt(DefaultCapital)
    /\ commission = DefaultCommission
    /\ \E s \in RerunStrategies : strategies = <<s>>
    /\ results = None
    /\ raised = "none"
    /\ pc = "idle"
    /\ NoFrame

NextRerun ==
    \/ \E d \in PriceSeries : RunStart(d)
    \/ \E d \in PriceSeries : RunAgain(d)
    \/ ExecuteBar
    \/ FinishRun
    \/ FinishEmpty

SpecRerun == InitRerun /\ [][NextRerun]_vars

\* ------------------------------------------------------------ properties

Completed == results # None

\* The trade log, snapshots, series and signals of the run: of the running
\* call while it loops, of the stored bundle once it has returned.
Log ==
    IF pc = "loop"
    THEN [trades |-> trades, portfolio |-> portfolio_value,
          data |-> data, signals |-> signals]
    ELSE IF Completed
    THEN [trades |-> results.trades, portfolio |-> results.portfolio,
          data |-> results.data, signals |-> results.signals]
    ELSE [trades |-> <<>>, portfolio |-> <<>>, data |-> <<>>, signals |-> <<>>]

\* position and cash when bar `date` begins
PosBefore(L, date) == IF date = 0 THEN Zero ELSE L.portfolio[date].position
CashBefore(L, date) == IF date = 0 THEN initial_capital ELSE L.portfolio[date].cash

\* the trades of L made on bar `date`
TradesOn(L, date) == {k \in 1..Len(L.trades) : L.trades[k].date = date}

\* C1: the trade types alternate BUY, SELL, BUY, ... from a BUY; a BUY is
\* made only on a bar that begins with position 0 and cash > 0, a SELL only
\* on a bar that begins with a positive position.
C1_TradesAlternate ==
    \A k \in 1..Len(Log.trades) :
        /\ Log.trades[k].type = (IF k % 2 = 1 THEN "BUY" ELSE "SELL")
        /\ Log.trades[k].type = "BUY" =>
               /\ FEq(PosBefore(Log, Log.trades[k].date), Zero)
               /\ FGt(CashBefore(Log, Log.trades[k].date), Zero)
        /\ Log.trades[k].type = "SELL" =>
               FGt(PosBefore(Log, Log.trades[k].date), Zero)

\* a completed run that bought, sold and bought again
C1_Witness ==
    /\ Completed
    /\ Len(results.trades) = 3
    /\ results.trades[3].type = "BUY"

\* C2: every snapshot has total_value = cash + position * close and
\* position_value = position * close, for the cash and position the bar's
\* trade (if any) left and the bar's close.
C2_SnapshotAdds ==
    /\ \A t \in 1..Len(Log.portfolio) :
           /\ Log.portfolio[t].total_value =
                  FAdd(Log.portfolio[t].cash,
                       FMul(Log.portfolio[t].position, Log.data[t]))
           /\ Log.portfolio[t].position_value =
                  FMul(Log.portfolio[t].position, Log.data[t])
           /\ \A k \in TradesOn(Log, t - 1) :
                  /\ Log.portfolio[t].cash = Log.trades[k].cash
                  /\ Log.portfolio[t].position =
                         (IF Log.trades[k].type = "BUY" THEN Log.trades[k].shares
                          ELSE Zero)
           /\ TradesOn(Log, t - 1) = {} =>
                  /\ Log.portfolio[t].cash = CashBefore(Log, t - 1)
                  /\ Log.portfolio[t].position = PosBefore(Log, t - 1)
    /\ pc = "loop" /\ portfolio_value # <<>> =>
           /\ portfolio_value[Len(portfolio_value)].cash = cash
           /\ portfolio_value[Len(portfolio_value)].position = position

\* a completed run with a snapshot on a Buy bar, one on a no-trade bar while
\* holding, and one on a Sell bar
C2_Witness ==
    /\ Completed
    /\ Len(results.portfolio) = 3
    /\ Len(results.trades) = 2
    /\ results.trades[1].date = 0
    /\ results.trades[2].date = 2
    /\ FGt(results.portfolio[2].position_value, Zero)

\* the latest BUY among the first n trades of L (0 if there is none)
RECURSIVE LastBuy(_, _)
LastBuy(L, n) ==
    IF n = 0 THEN 0
    ELSE IF L.trades[n].type = "BUY" THEN n
    ELSE LastBuy(L, n - 1)

\* C3: the position is never negative, and it is 0 or the share quantity of
\* the most recent BUY, in the running loop and in every snapshot.
C3_PositionLongOrFlat ==
    /\ FGe(position, Zero)
    /\ pc = "loop" /\ FNe(position, Zero) =>
           /\ LastBuy(Log, Len(trades)) # 0
           /\ position = trades[LastBuy(Log, Len(trades))].shares
    /\ \A t \in 1..Len(Log.portfolio) :
           /\ FGe(Log.portfolio[t].position, Zero)
           /\ FNe(Log.portfolio[t].position, Zero) =>
                  \E k \in 1..Len(Log.trades) :
                      /\ Log.trades[k].type = "BUY"
                      /\ Log.trades[k].date < t
                      /\ \A j \in 1..Len(Log.trades) :
                             (Log.trades[j].type = "BUY" /\ Log.trades[j].date < t)
                                 => j <= k
                      /\ Log.portfolio[t].position = Log.trades[k].shares

\* the loop holds the shares of a second BUY, which differ from the first's
C3_Witness ==
    /\ pc = "loop"
    /\ FGt(position, Zero)
    /\ Len(trades) = 3
    /\ trades[3].type = "BUY"
    /\ trades[3].shares # trades[1].shares
    /\ position = trades[3].shares

\* C4: one snapshot per bar, in bar order; a trade on a bar exactly when the
\* position changes on it (0 to positive by a BUY, positive to 0 by a SELL);
\* at most one trade per bar, none on a Hold bar.
C4_SnapshotPerBarTradePerChange ==
    /\ pc = "loop" => Len(portfolio_value) = i
    /\ Completed => Len(results.portfolio) = Len(results.data)
    /\ \A k \in 1..Len(Log.trades) : Log.trades[k].date < Len(Log.portfolio)
    /\ \A t \in 1..Len(Log.portfolio) :
           /\ Log.portfolio[t].date = t - 1
           /\ Cardinality(TradesOn(Log, t - 1)) <= 1
           /\ (TradesOn(Log, t - 1) # {}) <=>
                  FNe(Log.portfolio[t].position, PosBefore(Log, t - 1))
           /\ \A k \in TradesOn(Log, t - 1) :
                  IF Log.trades[k].type = "BUY"
                  THEN /\ Log.signals[t] = 1
                       /\ FEq(PosBefore(Log, t - 1), Zero)
                       /\ FGt(Log.portfolio[t].position, Zero)
                  ELSE /\ Log.signals[t] = -1
                       /\ FGt(PosBefore(Log, t - 1), Zero)
                       /\ FEq(Log.portfolio[t].position, Zero)

\* a completed run of three bars: a Buy, a Buy signal blocked by the position,
\* and a Hold
C4_Witness ==
    /\ Completed
    /\ Len(results.data) = 3
    /\ results.signals = <<1, 1, 0>>
    /\ Len(results.trades) = 1
    /\ Len(results.portfolio) = 3

\* C5: from an engine with no strategy no step begins a run: the call raises
\* ValueError and leaves the stored results and every run-local value alone.
C5_NoStrategyRejected ==
    [][Len(strategies) = 0 =>
          /\ pc' = "idle"
          /\ results' = results
          /\ frame' = frame
          /\ raised' # raised => raised' = "ValueError"]_vars

\* run was called on an engine without strategies
C5_Witness ==
    /\ raised = "ValueError"
    /\ strategies = <<>>
    /\ results = None
    /\ NoFrame

\* the sum of the n first strategies' votes on bar t
RECURSIVE VoteSum(_, _)
VoteSum(t, n) == IF n = 0 THEN 0 ELSE VoteSum(t, n - 1) + votes[n][t]

\* C6: on every bar the ensemble signal is Buy iff the mean of the registered
\* strategies' votes is > 0.5, Sell iff it is < -0.5, Hold otherwise; with one
\* strategy it is that strategy's signal.
C6_EnsembleIsMeanOfVotes ==
    pc = "loop" =>
        /\ \A t \in 1..Len(data) :
               signals[t] =
                   (IF 2 * VoteSum(t, Len(strategies)) > Len(strategies) THEN 1
                    ELSE IF 2 * VoteSum(t, Len(strategies)) < -Len(strategies)
                    THEN -1 ELSE 0)
        /\ Len(strategies) = 1 => signals = votes[1]

\* the simple average of the last w closes at bar t (1-based), for t >= w
C7_Average(w, t) == FDiv(FSum(data, t - w + 1, t), FromInt(w))

\* both averages are available on bar t and on the bar before it
C7_Available(s, t) == t - 1 >= s.p1 /\ t - 1 >= s.p2

C7_Buy(s, t) ==
    /\ C7_Available(s, t)
    /\ FGt(C7_Average(s.p1, t), C7_Average(s.p2, t))
    /\ FLe(C7_Average(s.p1, t - 1), C7_Average(s.p2, t - 1))

C7_Sell(s, t) ==
    /\ C7_Available(s, t)
    /\ FLt(C7_Average(s.p1, t), C7_Average(s.p2, t))
    /\ FGe(C7_Average(s.p1, t - 1), C7_Average(s.p2, t - 1))

\* C7: MACrossStrategy signals Buy on bar t exactly when the short average is
\* above the long one on t and was not above it on t-1, Sell exactly when it
\* is below on t and was not below on t-1, Hold otherwise; a bar where one of
\* the four averages is not available is a Hold, so no signal fires before
\* the bar of index `long` (the bar number long + 1).
C7_MACrossSignalsAtCrossings ==
    (pc = "loop" /\ strategies[1].kind = "MA") =>
        /\ \A t \in 1..Len(data) :
               /\ votes[1][t] = 1 <=> C7_Buy(strategies[1], t)
               /\ votes[1][t] = -1 <=> C7_Sell(strategies[1], t)
               /\ votes[1][t] \in {-1, 0, 1}
               /\ t <= strategies[1].p2 => votes[1][t] = 0
        /\ signals = votes[1]

\* a run of MA(1, 2) with a Buy on a bar after the lines touched and a Sell
C7_Witness ==
    /\ pc = "loop"
    /\ strategies[1] = MACrossStrategy(1, 2)
    /\ \E t \in 3..Len(data) :
           /\ votes[1][t] = 1
           /\ data[t - 1] = data[t - 2]
    /\ \E t \in 1..Len(data) : votes[1][t] = -1

Flat(d) == d # <<>> /\ \A t \in 1..Len(d) : d[t] = d[1]

\* C8: on a flat series neither crossover strategy signals on any bar, the
\* run records no trade, and every snapshot's total value is the initial
\* capital.
C8_FlatSeriesNoTrade ==
    Flat(Log.data) =>
        /\ \A t \in 1..Len(Log.data) : Log.signals[t] = 0
        /\ pc = "loop" => \A t \in 1..Len(data) : votes[1][t] = 0
        /\ Log.trades = <<>>
        /\ \A t \in 1..Len(Log.portfolio) :
               /\ Log.portfolio[t].total_value = initial_capital
               /\ Log.portfolio[t].cash = initial_capital
               /\ Log.portfolio[t].position = Zero

\* a completed MACD run on a flat series longer than every window
C8_Witness ==
    /\ Completed
    /\ Flat(results.data)
    /\ Len(results.data) > MaxWindow
    /\ strategies[1].kind = "MACD"
    /\ strategies[1].p1 # strategies[1].p2
    /\ Len(results.portfolio) = Len(results.data)

\* C9: in a run whose trades are one Buy at p1 and then one Sell at p2, the
\* Buy quantity is q = C / (p1 * (1 + r)), its commission q * p1 * r, its
\* debit q * p1 + commission does not exceed the cash held (the cash after
\* the Buy is 0, never negative), the Sell commission is q * p2 * r, and the
\* final cash is q * p2 - q * p2 * r with final position 0.
C9_BuyThenSell ==
    (Completed /\ Len(results.trades) = 2) =>
        LET buy == results.trades[1]
            sell == results.trades[2]
            q == FDiv(initial_capital, FMul(buy.price, FAdd(One, commission)))
            last == results.portfolio[Len(results.portfolio)]
        IN  /\ buy.type = "BUY" /\ sell.type = "SELL"
            /\ buy.shares = q
            /\ buy.commission = FMul(FMul(q, buy.price), commission)
            /\ FLe(FAdd(FMul(q, buy.price), buy.commission), initial_capital)
            /\ buy.cash = Zero
            /\ sell.commission = FMul(FMul(q, sell.price), commission)
            /\ last.cash = FSub(FMul(q, sell.price),
                                FMul(FMul(q, sell.price), commission))
            /\ last.position = Zero

\* C10: the Sharpe ratio is 0 when the return series has fewer than two
\* observations or a standard deviation of 0, and otherwise
\* (mean * 252 - 0.03) / (std * sqrt(252)).
C10_SharpeFallback ==
    Completed =>
        LET r == Returns(TotalValues(results.portfolio))
        IN  IF Len(r) < 2 \/ FEq(Std(r), Zero)
            THEN results.metrics.sharpe_ratio = Zero
            ELSE results.metrics.sharpe_ratio =
                     FDiv(FSub(FMul(Mean(r), FromInt(TradingDays)), RiskFree),
                          FMul(Std(r), FSqrt(FromInt(TradingDays))))

\* C11: a run over a series of no bars, with a strategy registered, ends
\* without a fault and stores metrics whose degenerate values are the
\* fallback 0: annual return, Sharpe ratio, win rate and profit/loss ratio.
C11_ZeroBarRunCompletes ==
    [][(pc = "loop" /\ data = <<>>) =>
          /\ raised' = "none"
          /\ results' # None
          /\ results'.metrics.annual_return = Zero
          /\ results'.metrics.sharpe_ratio = Zero
          /\ results'.metrics.win_rate = Zero
          /\ results'.metrics.profit_loss_ratio = Zero]_vars

\* the running peak: the largest of the total values of bars 1..t
C12_Peak(tv, t) == CHOOSE p \in {tv[u] : u \in 1..t} : \A u \in 1..t : FLe(tv[u], p)

\* (total_value - running_peak) / running_peak on bar t, in percent
C12_Drop(tv, t) ==
    FMul(FDiv(FSub(tv[t], C12_Peak(tv, t)), C12_Peak(tv, t)), FromInt(100))

\* C12: max_drawdown is the minimum over the bars of (total_value -
\* running_peak) / running_peak in percent; it is never above 0, and it is 0
\* on an equity curve that never decreases.
C12_MaxDrawdownIsDeepestDrop ==
    Completed =>
        LET tv == TotalValues(results.portfolio)
            max_drawdown == results.metrics.max_drawdown
        IN  /\ \E t \in 1..Len(tv) : max_drawdown = C12_Drop(tv, t)
            /\ \A t \in 1..Len(tv) : FLe(max_drawdown, C12_Drop(tv, t))
            /\ FLe(max_drawdown, Zero)
            /\ (\A t \in 2..Len(tv) : FGe(tv[t], tv[t - 1])) =>
                   max_drawdown = Zero

\* the profit of the k-th round trip of the stored trade log: the k-th BUY is
\* trade 2k - 1 and the k-th SELL is trade 2k
C13_Profit(k) ==
    LET buy == results.trades[2 * k - 1]
        sell == results.trades[2 * k]
    IN  FSub(FSub(FMul(sell.price, sell.shares), FMul(buy.price, buy.shares)),
             FAdd(buy.commission, sell.commission))

C13_Profits == [k \in 1..(Len(results.trades) \div 2) |-> C13_Profit(k)]
C13_Wins == SelectSeq(C13_Profits, LAMBDA p : FGt(p, Zero))
C13_Losses == SelectSeq(C13_Profits, LAMBDA p : FLt(p, Zero))
C13_Average(xs) ==
    IF xs = <<>> THEN Zero ELSE FDiv(FSum(xs, 1, Len(xs)), FromInt(Len(xs)))

\* everything the claim says but the win rate
C13_PairsAndAverages ==
    /\ \A k \in 1..Len(C13_Profits) :
           /\ results.trades[2 * k - 1].type = "BUY"
           /\ results.trades[2 * k].type = "SELL"
    /\ results.metrics.avg_profit = C13_Average(C13_Wins)
    /\ results.metrics.avg_loss = C13_Average(C13_Losses)
    /\ results.metrics.profit_loss_ratio =
           (IF FEq(C13_Average(C13_Losses), Zero) THEN Zero
            ELSE FAbs(FDiv(C13_Average(C13_Wins), C13_Average(C13_Losses))))

\* C13 (as amended): the i-th Buy is paired with the i-th Sell, a trailing
\* Buy left out; a pair's profit is sellPrice * sellQty - buyPrice * buyQty -
\* (buyCommission + sellCommission); the win rate is the PERCENTAGE of pairs
\* with a strictly positive profit (0 with no pair); average profit and loss
\* are taken over the winning and the losing pairs (0 if there is none); the
\* profit/loss ratio is |avgProfit / avgLoss|, 0 when avgLoss is 0.
C13_TradePairStatistics ==
    Completed =>
        /\ C13_PairsAndAverages
        /\ results.metrics.win_rate =
               (IF C13_Profits = <<>> THEN Zero
                ELSE FMul(FDiv(FromInt(Len(C13_Wins)), FromInt(Len(C13_Profits))),
                          FromInt(100)))

\* a completed run of two round trips, one won and one lost
C13_Witness ==
    /\ Completed
    /\ Len(results.trades) = 4
    /\ Len(C13_Wins) = 1
    /\ Len(C13_Losses) = 1
    /\ FGt(results.metrics.profit_loss_ratio, Zero)

\* C13 (as stated): the same, with the win rate the FRACTION of pairs with a
\* strictly positive profit.
C13_WinRateIsFraction ==
    Completed =>
        /\ C13_PairsAndAverages
        /\ results.metrics.win_rate =
               (IF C13_Profits = <<>> THEN Zero
                ELSE FDiv(FromInt(Len(C13_Wins)), FromInt(Len(C13_Profits))))

\* the ensemble signal of the registered crossover strategy on the series d
C14_Signals(d) ==
    CombinedSignal(strategies,
                   <<CHOOSE v \in GenerateSignals(strategies[1], d) : TRUE>>,
                   Len(d))

\* the cash, position, trades and snapshots an execution pass over the first
\* n bars of d under the signals sigs leaves
C14_Step(d, sigs, n, before) ==
    Apply1(LAMBDA after :
               [cash |-> after.cash, position |-> after.position,
                trades |-> IF after.trade = None THEN before.trades
                           ELSE Append(before.trades, after.trade),
                portfolio |-> Append(before.portfolio,
                                     Snapshot(n - 1, d[n], after.cash,
                                              after.position))],
           IF BuyAllowed(sigs[n], before.position, before.cash)
           THEN BuyBranch(n - 1, d[n], before.cash, commission)
           ELSE IF SellAllowed(sigs[n], before.position)
           THEN SellBranch(n - 1, d[n], before.cash, before.position, commission)
           ELSE [position |-> before.position, cash |-> before.cash,
                 trade |-> None])

RECURSIVE C14_Pass(_, _, _)
C14_Pass(d, sigs, n) ==
    IF n = 0
    THEN [cash |-> initial_capital, position |-> Zero,
          trades |-> <<>>, portfolio |-> <<>>]
    ELSE Apply1(LAMBDA before : C14_Step(d, sigs, n, before),
                C14_Pass(d, sigs, n - 1))

\* the trades of L made on the bars before bar index n
C14_TradesBefore(L, n) == SelectSeq(L.trades, LAMBDA t : t.date < n)

\* C14: no look-ahead.  The ensemble signals, trades and snapshots of bars
\* 0..t of a run are those of a run over bars 0..t alone, for every t before
\* the last bar, so two series that agree on bars 0..t give the same signals,
\* trades and snapshots there whatever follows; the bars are processed once
\* each, in ascending order.
C14_NoLookAhead ==
    Completed => \A n \in 1..(Len(Log.portfolio) - 1) :
        /\ Log.portfolio[n].date = n - 1
        /\ Log.portfolio[n + 1].date = n
        /\ Apply1(LAMBDA sigs :
                      /\ sigs = SubSeq(Log.signals, 1, n)
                      /\ Apply1(LAMBDA alone :
                                    /\ alone.portfolio = SubSeq(Log.portfolio, 1, n)
                                    /\ alone.trades = C14_TradesBefore(Log, n),
                                C14_Pass(SubSeq(Log.data, 1, n), sigs, n)),
                  C14_Signals(SubSeq(Log.data, 1, n)))

\* a completed run that traded before its last bar, on a series whose last
\* close differs from the one before
C14_Witness ==
    /\ Completed
    /\ Len(results.data) >= 3
    /\ results.trades # <<>>
    /\ results.trades[1].date < Len(results.data) - 1
    /\ results.data[Len(results.data)] # results.data[Len(results.data) - 1]

\* C15: every call of run starts its pass from cash = initial capital,
\* position 0, no trade and no snapshot, however the run before ended; a
\* second run on the same series stores the same signals, trades, snapshots
\* and metrics, and what a run stores is that run's log alone.
C15_RerunStartsAfresh ==
    [][/\ (pc = "idle" /\ pc' = "loop") =>
              /\ cash' = initial_capital
              /\ position' = Zero
              /\ trades' = <<>>
              /\ portfolio_value' = <<>>
       /\ (pc = "loop" /\ pc' = "idle" /\ data # <<>>) =>
              /\ results'.trades = trades
              /\ results'.portfolio = portfolio_value
              /\ Len(results'.portfolio) = Len(data)
              /\ (Completed /\ results.data = data) => results' = results
      ]_vars

\* a second run on the same series is about to return, after a first run
\* that ended holding a position
C15_Witness ==
    /\ pc = "loop"
    /\ i = Len(data)
    /\ Completed
    /\ results.data = data
    /\ FGt(results.portfolio[Len(results.portfolio)].position, Zero)
    /\ trades = results.trades
    /\ portfolio_value = results.portfolio

====
